---------------------------- MODULE Spec2Model ----------------------------
(***************************************************************************)
(* State-machine model of src/main.py: the Telegram webhook endpoint       *)
(* (telegram_webhook), the background processor (process_and_reply) and    *)
(* its two outbound helpers (send_telegram_message, call_openai).          *)
(*                                                                         *)
(* Strings are kept run-length encoded: a string is a sequence of runs     *)
(* [c |-> character, n |-> repeat count] in which neighbouring runs have   *)
(* different characters.  len(), strip(), split("\n\n") and + are computed *)
(* on that encoding exactly as Python computes them on the characters, so  *)
(* MAX_LEN keeps its real value of 4000.                                   *)
(***************************************************************************)
EXTENDS Integers, Sequences, FiniteSets, TLC

(***************************************************************************)
(* Bounds of the model.                                                    *)
(***************************************************************************)
\* Paragraphs per completion result drawn in the chunking specification.
MaxParas == 3
\* Webhook deliveries (hence background tasks) in the pipeline specification.
MaxDeliveries == 1
\* Webhook deliveries running concurrently in the concurrency specification.
MaxTasks == 2

(***************************************************************************)
(* Python strings, run-length encoded.                                     *)
(***************************************************************************)
Run(ch, k) == [c |-> ch, n |-> k]

EmptyStr == <<>>

\* a one-run string: ch repeated k times
Rep(ch, k) == <<Run(ch, k)>>

\* len(s)
RECURSIVE StrLen(_)
StrLen(s) == IF s = <<>> THEN 0 ELSE Head(s).n + StrLen(Tail(s))

\* s + t
Cat(s, t) ==
    IF s = <<>> THEN t
    ELSE IF t = <<>> THEN s
    ELSE IF s[Len(s)].c = t[1].c
         THEN SubSeq(s, 1, Len(s) - 1)
                \o <<Run(t[1].c, s[Len(s)].n + t[1].n)>>
                \o Tail(t)
         ELSE s \o t

\* str.isspace() of one character
IsSpace(ch) == ch \in {" ", "\n"}

RECURSIVE LStrip(_)
LStrip(s) == IF s # <<>> /\ IsSpace(Head(s).c) THEN LStrip(Tail(s)) ELSE s

RECURSIVE RStrip(_)
RStrip(s) ==
    IF s # <<>> /\ IsSpace(s[Len(s)].c)
    THEN RStrip(SubSeq(s, 1, Len(s) - 1))
    ELSE s

\* s.strip()
Strip(s) == RStrip(LStrip(s))

\* the paragraph separator "\n\n"
Sep == Rep("\n", 2)

\* s.split("\n\n"): the separators are found left to right without overlap, so
\* a run of k newlines holds k \div 2 separators and leaves k % 2 newlines at
\* the head of the paragraph that follows.
RECURSIVE SplitFrom(_, _, _, _)
SplitFrom(s, i, cur, acc) ==
    IF i > Len(s) THEN Append(acc, cur)
    ELSE IF s[i].c = "\n" /\ s[i].n >= 2
         THEN SplitFrom(s, i + 1,
                        IF s[i].n % 2 = 1 THEN Rep("\n", 1) ELSE EmptyStr,
                        Append(acc, cur)
                          \o [j \in 1..((s[i].n \div 2) - 1) |-> EmptyStr])
         ELSE SplitFrom(s, i + 1, Cat(cur, <<s[i]>>), acc)

Split(s) == SplitFrom(s, 1, EmptyStr, <<>>)

\* "\n\n".join(parts)
RECURSIVE Join(_)
Join(parts) ==
    IF parts = <<>> THEN EmptyStr
    ELSE IF Len(parts) = 1 THEN parts[1]
    ELSE Cat(Cat(parts[1], Sep), Join(Tail(parts)))


(***************************************************************************)
(* JSON values of an update, tagged with their kind k.  A key that is not  *)
(* in a dict is Absent; JSON null is Null; Scalar is any truthy value that *)
(* is not a dict (a string, a number, a list).                             *)
(***************************************************************************)
Absent == [k |-> "absent"]
Null   == [k |-> "null"]
Scalar == [k |-> "scalar"]
JStr(s) == [k |-> "str", v |-> s]
JInt(i) == [k |-> "int", v |-> i]

\* bool(v) as Python's `or`, `not` and `if` take it
Truthy(v) ==
    CASE v.k \in {"absent", "null"} -> FALSE
      [] v.k = "str"  -> v.v # EmptyStr
      [] v.k = "int"  -> v.v # 0
      [] v.k = "dict" -> \E f \in DOMAIN v \ {"k"} : v[f].k # "absent"
      [] OTHER        -> TRUE

\* value is None
IsNone(v) == v.k \in {"absent", "null"}

\* d.get(key, default) of a dict d
Get(d, key, default) == IF d[key].k = "absent" THEN default ELSE d[key]

\* the {} that message.get("chat", {}) falls back to
EmptyChat == [k |-> "dict", id |-> Absent]

Chat(id) == [k |-> "dict", id |-> id]

Message(chat, mid, txt, cap) ==
    [k |-> "dict", chat |-> chat, message_id |-> mid, text |-> txt, caption |-> cap]

Update(msg, edited) == [k |-> "dict", message |-> msg, edited_message |-> edited]

\* a JSON body that is not an object
NotADict == [k |-> "list"]

\* a request body request.json() cannot parse
Unparseable == [k |-> "unparseable"]

(***************************************************************************)
(* Outbound messages: the fixed notices of the code, or a computed text.   *)
(***************************************************************************)
Fixed(msg) == [fixed |-> msg]
Text(s)    == [str |-> s]

\* (mutant) on a failed completion call the text of the error is sent as the
\* answer
FailureAsAnswer == Text(Rep("e", 5))

AckNotice      == Fixed("Memproses permintaan anda... Sila tunggu sebentar.")
FailureNotice  == Fixed("Maaf, berlaku ralat pada perkhidmatan AI. Sila cuba lagi kemudian.")
NoAnswerNotice == Fixed("Maaf, tiada jawapan diterima daripada perkhidmatan AI.")
\* the notice of the handler around step 3; no statement of step 3 raises
\* (send_telegram_message catches everything), so no action hands it over
FallbackNotice == Fixed("Maaf, tidak dapat menghantar jawapan penuh. Sila hubungi pejabat SSM.")

MAX_LEN == 4000

\* the body every return of telegram_webhook carries
OkTrue == [status |-> 200, ok |-> TRUE]
NoResponse == [status |-> 0, ok |-> FALSE]

(***************************************************************************)
(* State.  Every background task is the one scheduled by the webhook       *)
(* delivery of the same index.                                             *)
(***************************************************************************)
VARIABLES
    response,    \* per delivery: what telegram_webhook returned
    pc,          \* per delivery: where its handler / background task stands
    data,        \* process_and_reply's argument
    chat_id,     \* local chat_id
    text,        \* local text
    messages,    \* local messages, the argument of call_openai
    reply,       \* local reply
    parts,       \* local parts
    buffer,      \* local buffer
    idx,         \* position of the for loop in parts
    fault,       \* whether an exception was raised, and where it ended
    completions, \* number of call_openai invocations made by the task
    attempts,    \* per task: the sendMessage calls that returned, in order
    inflight,    \* sendMessage POSTs sent and not yet answered
    transcript   \* per chat: the messages Telegram accepted, in order

vars == <<response, pc, data, chat_id, text, messages, reply, parts, buffer, idx, fault,
          completions, attempts, inflight, transcript>>

locals == <<chat_id, text, messages, reply, parts, buffer, idx>>

ChatIds == {10, 20}

Tasks == DOMAIN pc

InitWith(ids) ==
    /\ response = [t \in ids |-> NoResponse]
    /\ pc = [t \in ids |-> "idle"]
    /\ data = [t \in ids |-> Absent]
    /\ chat_id = [t \in ids |-> Absent]
    /\ text = [t \in ids |-> Absent]
    /\ messages = [t \in ids |-> <<>>]
    /\ reply = [t \in ids |-> Absent]
    /\ parts = [t \in ids |-> <<>>]
    /\ buffer = [t \in ids |-> EmptyStr]
    /\ idx = [t \in ids |-> 0]
    /\ fault = [t \in ids |-> "none"]
    /\ completions = [t \in ids |-> 0]
    /\ attempts = [t \in ids |-> <<>>]
    /\ inflight = {}
    /\ transcript = [c \in ChatIds |-> <<>>]

(***************************************************************************)
(* telegram_webhook                                                        *)
(***************************************************************************)
\* (mutant) the parse failure answered with an error status
WebhookParseFailureRejects == [status |-> 400, ok |-> FALSE]

\* what the handler returns when request.json() raises
WebhookParseFailure == OkTrue

\* (mutant) the handler runs the pipeline itself and has nothing to return
\* until it ends
WebhookAwaitsPipeline == NoResponse

\* what the handler returns at its end, whether or not add_task raised
WebhookReturn == OkTrue

\* The whole handler for delivery t: parse, log, schedule, return.  The body
\* is one of `bodies`; add_task either queues the task or raises.  Logging
\* data.keys() raises for a body that is no dict and is swallowed.
Webhook(t, bodies) ==
    /\ pc[t] = "idle"
    /\ \E body \in bodies, sched \in {"ok", "raise"} :
          IF body = Unparseable
          THEN /\ response' = [response EXCEPT ![t] = WebhookParseFailure]
               /\ pc' = [pc EXCEPT ![t] = "bad_json"]
               /\ data' = data
          ELSE /\ response' = [response EXCEPT ![t] = WebhookReturn]
               /\ pc' = [pc EXCEPT ![t] = IF sched = "ok" THEN "queued"
                                                         ELSE "unscheduled"]
               /\ data' = [data EXCEPT ![t] = IF sched = "ok" THEN body ELSE @]
    /\ UNCHANGED <<locals, fault, completions, attempts, inflight, transcript>>

(***************************************************************************)
(* send_telegram_message                                                   *)
(***************************************************************************)
\* (mutant) the destination is kept in one place shared by all tasks, set by
\* the first delivery's task
PostToSharedChat(t, chat, msg) ==
    [task |-> t,
     chat |-> IF chat_id[1].k = "int" THEN chat_id[1].v ELSE chat,
     msg |-> msg]

\* the POST of one sendMessage call
Post(t, chat, msg) == [task |-> t, chat |-> chat, msg |-> msg]

\* send_telegram_message is entered: the POST leaves
SendCall(t, chat, msg) == inflight' = inflight \cup {Post(t, chat, msg)}

\* (mutant) a POST without a timeout to a peer that never answers
SendNeverReturns(t) == FALSE

\* The POST of task t is answered: resp.ok, a response that is not ok (logged)
\* or an exception of requests.post (caught and logged).  The function
\* returns None in all three cases.
SendReturns(t) ==
    \E req \in inflight, outcome \in {"ok", "not_ok", "raise"} :
        /\ req.task = t
        /\ inflight' = inflight \ {req}
        /\ attempts' = [attempts EXCEPT
                          ![t] = Append(@, [msg |-> req.msg, ok |-> outcome = "ok"])]
        /\ transcript' = IF outcome = "ok"
                         THEN [transcript EXCEPT ![req.chat] = Append(@, req.msg)]
                         ELSE transcript

(***************************************************************************)
(* process_and_reply                                                       *)
(***************************************************************************)
\* data.get("message") or data.get("edited_message")
ExtractMessage(d) == IF Truthy(d.message) THEN d.message ELSE d.edited_message

\* (mutant) only the caption is read
ExtractCaptionOnly(message) == Get(message, "caption", JStr(EmptyStr))

\* message.get("text", "") or message.get("caption", "")
ExtractText(message) ==
    IF Truthy(Get(message, "text", JStr(EmptyStr)))
    THEN Get(message, "text", JStr(EmptyStr))
    ELSE Get(message, "caption", JStr(EmptyStr))

\* (mutant) the chat id read by indexing, message["chat"]["id"]: a missing key
\* raises KeyError
ExtractByIndex(d) ==
    IF d.k # "dict" THEN "not_dict"
    ELSE LET message == ExtractMessage(d) IN
         IF ~Truthy(message) THEN "no_message"
         ELSE IF message.k # "dict" THEN "raise"
         ELSE IF message.chat.k # "dict" THEN "raise"
         ELSE IF message.chat.id.k = "absent" THEN "raise"
         ELSE IF IsNone(message.chat.id) THEN "no_chat_id"
         ELSE "proceed"

\* The entry of process_and_reply, up to the chat_id check: which return it
\* takes, whether .get raises AttributeError on a value that is no dict, or
\* whether it goes on to the acknowledgment.
Extract(d) ==
    IF d.k # "dict" THEN "not_dict"
    ELSE LET message == ExtractMessage(d) IN
         IF ~Truthy(message) THEN "no_message"
         ELSE IF message.k # "dict" THEN "raise"
         ELSE LET chat == Get(message, "chat", EmptyChat) IN
              IF chat.k # "dict" THEN "raise"
              ELSE IF IsNone(chat.id) THEN "no_chat_id"
              ELSE "proceed"

\* (mutant) process_and_reply without its outermost handler
OuterUncaught == "escaped"

\* the outermost `except Exception` of process_and_reply: logs, and the
\* function returns
OuterExcept == "outer"

\* (mutant) call_openai's exception is not caught where it is called
CompletionUncaught == "uncaught"

\* the `except Exception` around call_openai: logs, sends the failure notice
\* and returns.  Without it the exception would reach the outermost handler.
CompletionExcept == "completion"

\* where a task stands once an exception reached handler h
AfterFault(h) == IF h = "escaped" THEN "crashed" ELSE "done"

\* The task starts: extraction, then the acknowledgment is posted.
Start(t) ==
    /\ pc[t] = "queued"
    /\ LET how == Extract(data[t]) IN
       IF how = "proceed"
       THEN LET message == ExtractMessage(data[t]) IN
            /\ chat_id' = [chat_id EXCEPT ![t] = Get(message, "chat", EmptyChat).id]
            /\ text' = [text EXCEPT ![t] = ExtractText(message)]
            /\ SendCall(t, chat_id'[t].v, AckNotice)
            /\ pc' = [pc EXCEPT ![t] = "ack_wait"]
            /\ fault' = fault
       ELSE /\ fault' = [fault EXCEPT ![t] = IF how = "raise" THEN OuterExcept ELSE @]
            /\ pc' = [pc EXCEPT ![t] = IF how = "raise" THEN AfterFault(OuterExcept)
                                                        ELSE "done"]
            /\ UNCHANGED <<chat_id, text, inflight>>
    /\ UNCHANGED <<response, data, messages, reply, parts, buffer, idx,
                   completions, attempts, transcript>>

\* the system instruction: instructions.txt, or this fallback
SYSTEM_INSTRUCTION ==
    [k |-> "str", fixed |-> "Anda ialah Penguatkuasa SSM Johor. Jawab mengikut arahan."]

\* (mutant) the user message is built without the user's text
build_openai_messages_blank(user_text) ==
    << [role |-> "system", content |-> SYSTEM_INSTRUCTION],
       [role |-> "user", content |-> JStr(EmptyStr)] >>

build_openai_messages(user_text) ==
    << [role |-> "system", content |-> SYSTEM_INSTRUCTION],
       [role |-> "user", content |-> user_text] >>

\* (mutant) an acknowledgment that was not delivered ends the task
AbortOnAckFailure(delivered) == IF delivered THEN "openai_wait" ELSE "done"

\* where the task goes once the acknowledgment's send returned: the outcome
\* is not observed (send_telegram_message returns None) and step 2 follows
AfterAckSend(delivered) == "openai_wait"

\* The acknowledgment's send returned (whatever its outcome): the messages
\* are built and call_openai is entered.
AckReturn(t) ==
    /\ pc[t] = "ack_wait"
    /\ SendReturns(t)
    /\ LET next == AfterAckSend(attempts'[t][Len(attempts'[t])].ok) IN
          /\ pc' = [pc EXCEPT ![t] = next]
          /\ IF next = "openai_wait"
             THEN /\ messages' = [messages EXCEPT ![t] = build_openai_messages(text[t])]
                  /\ completions' = [completions EXCEPT ![t] = @ + 1]
             ELSE UNCHANGED <<messages, completions>>
    /\ UNCHANGED <<response, data, chat_id, text, reply, parts, buffer, idx, fault>>

\* call_openai raised (timeout, API error, a response without choices)
Raises == [k |-> "raise"]

\* (mutant) the loop runs over the paragraphs from the last to the first
LoopParagraphReversed(ps, i) == ps[Len(ps) + 1 - i]

\* the paragraph the for loop takes at position i
LoopParagraph(ps, i) == ps[i]

\* (mutant) the buffer is flushed only once it is itself over the limit
FlushWhenOver(buf, p) == StrLen(buf) > MAX_LEN

\* (mutant) a paragraph longer than MAX_LEN never forces a flush: it is
\* appended to the buffer it finds
FlushUnlessOversized(buf, p) ==
    StrLen(p) <= MAX_LEN /\ StrLen(buf) + StrLen(p) + 2 > MAX_LEN

\* len(buffer) + len(p) + 2 > MAX_LEN
FlushNeeded(buf, p) == StrLen(buf) + StrLen(p) + 2 > MAX_LEN

\* buffer.strip(), the text of a chunk
Flushed(buf) == Strip(buf)

\* (mutant) the buffer restarts empty: the paragraph that forced the flush
\* is lost
AfterFlushEmpty(p) == EmptyStr

\* buffer = p + "\n\n"
AfterFlush(p) == Cat(p, Sep)

\* buffer += p + "\n\n"
Accumulate(buf, p) == Cat(buf, Cat(p, Sep))

\* (mutant) the reply is trimmed before it is sent as one message
WholeReplyStripped(r) == Text(Strip(r))

\* the message of a reply that fits: the reply itself
WholeReply(r) == Text(r)

\* (mutant) a failed completion call is made a second time
RetryCompletionOnce(calls) == calls < 2

\* whether call_openai is entered again after it raised, having been called
\* `calls` times: the except block sends the notice and returns
RetryCompletion(calls) == FALSE

\* call_openai returned or raised; step 3 runs up to its first send or to the
\* start of the paragraph loop.
OpenAIReturn(t, results) ==
    /\ pc[t] = "openai_wait"
    /\ \E res \in results :
          IF res = Raises
          THEN IF RetryCompletion(completions[t])
               THEN /\ completions' = [completions EXCEPT ![t] = @ + 1]
                    /\ UNCHANGED <<pc, fault, reply, parts, buffer, idx, inflight>>
               ELSE IF CompletionExcept = "completion"
               THEN /\ fault' = [fault EXCEPT ![t] = CompletionExcept]
                    /\ SendCall(t, chat_id[t].v, FailureNotice)
                    /\ pc' = [pc EXCEPT ![t] = "last_wait"]
                    /\ UNCHANGED <<reply, parts, buffer, idx, completions>>
               ELSE /\ fault' = [fault EXCEPT ![t] = OuterExcept]
                    /\ pc' = [pc EXCEPT ![t] = AfterFault(OuterExcept)]
                    /\ UNCHANGED <<reply, parts, buffer, idx, inflight, completions>>
          ELSE /\ reply' = [reply EXCEPT ![t] = res]
               /\ UNCHANGED <<fault, completions>>
               /\ IF ~Truthy(res)
                  THEN /\ SendCall(t, chat_id[t].v, NoAnswerNotice)
                       /\ pc' = [pc EXCEPT ![t] = "last_wait"]
                       /\ UNCHANGED <<parts, buffer, idx>>
                  ELSE IF StrLen(res.v) <= MAX_LEN
                  THEN /\ SendCall(t, chat_id[t].v, WholeReply(res.v))
                       /\ pc' = [pc EXCEPT ![t] = "last_wait"]
                       /\ UNCHANGED <<parts, buffer, idx>>
                  ELSE /\ parts' = [parts EXCEPT ![t] = Split(res.v)]
                       /\ buffer' = [buffer EXCEPT ![t] = EmptyStr]
                       /\ idx' = [idx EXCEPT ![t] = 1]
                       /\ pc' = [pc EXCEPT ![t] = "loop"]
                       /\ inflight' = inflight
    /\ UNCHANGED <<response, data, chat_id, text, messages, attempts, transcript>>

\* One iteration of `for p in parts`, up to the send of a flushed buffer.
LoopIter(t) ==
    /\ pc[t] = "loop"
    /\ idx[t] <= Len(parts[t])
    /\ IF FlushNeeded(buffer[t], LoopParagraph(parts[t], idx[t]))
       THEN /\ SendCall(t, chat_id[t].v, Text(Flushed(buffer[t])))
            /\ pc' = [pc EXCEPT ![t] = "chunk_wait"]
            /\ UNCHANGED <<buffer, idx>>
       ELSE /\ buffer' = [buffer EXCEPT
                            ![t] = Accumulate(@, LoopParagraph(parts[t], idx[t]))]
            /\ idx' = [idx EXCEPT ![t] = @ + 1]
            /\ UNCHANGED <<pc, inflight>>
    /\ UNCHANGED <<response, data, chat_id, text, messages, reply, parts, fault,
                   completions, attempts, transcript>>

\* (mutant) a chunk that was not delivered ends the loop
AbortOnChunkFailure(delivered) == IF delivered THEN "loop" ELSE "done"

\* where the task goes once the send of a flushed buffer returned:
\* send_telegram_message returns None whatever happened, and the loop goes on
AfterChunkSend(delivered) == "loop"

\* The send of a flushed buffer returned: the buffer restarts with p.
ChunkReturn(t) ==
    /\ pc[t] = "chunk_wait"
    /\ SendReturns(t)
    /\ buffer' = [buffer EXCEPT ![t] = AfterFlush(LoopParagraph(parts[t], idx[t]))]
    /\ idx' = [idx EXCEPT ![t] = @ + 1]
    /\ pc' = [pc EXCEPT ![t] = AfterChunkSend(attempts'[t][Len(attempts'[t])].ok)]
    /\ UNCHANGED <<response, data, chat_id, text, messages, reply, parts, fault,
                   completions>>

\* After the loop: `if buffer.strip(): send`.
LoopEnd(t) ==
    /\ pc[t] = "loop"
    /\ idx[t] > Len(parts[t])
    /\ IF Flushed(buffer[t]) # EmptyStr
       THEN /\ SendCall(t, chat_id[t].v, Text(Flushed(buffer[t])))
            /\ pc' = [pc EXCEPT ![t] = "last_wait"]
       ELSE /\ pc' = [pc EXCEPT ![t] = "done"]
            /\ inflight' = inflight
    /\ UNCHANGED <<response, data, locals, fault, completions, attempts, transcript>>

\* The last send of the task returned: process_and_reply returns.
LastReturn(t) ==
    /\ pc[t] = "last_wait"
    /\ SendReturns(t)
    /\ pc' = [pc EXCEPT ![t] = "done"]
    /\ UNCHANGED <<response, data, locals, fault, completions>>

(***************************************************************************)
(* Inputs.                                                                 *)
(***************************************************************************)
\* user texts: " Hello", "ssm", "  "
Hello    == <<Run(" ", 1), Run("H", 1), Run("e", 1), Run("l", 2), Run("o", 1)>>
Question == <<Run("s", 2), Run("m", 1)>>
Blank    == Rep(" ", 2)

\* an update whose message can be answered
Addressed(chat, mid, txt, cap) ==
    Update(Message(Chat(JInt(chat)), JInt(mid), txt, cap), Absent)

\* request bodies of the pipeline specification
PipelineBodies ==
    { Unparseable,
      NotADict,
      Update(Absent, Absent),
      Update(Scalar, Absent),
      Update(Message(Absent, JInt(7), JStr(Question), Absent), Absent),
      Update(Message(Null, JInt(7), JStr(Question), Absent), Absent),
      Update(Message(Scalar, JInt(7), JStr(Question), Absent), Absent),
      Update(Message(Chat(Null), JInt(7), JStr(Question), Absent), Absent),
      Addressed(10, 7, JStr(Hello), Absent),
      Addressed(10, 1, JStr(Question), Absent),
      Addressed(10, 7, JStr(Question), Absent),
      Addressed(10, 7, Absent, Absent),
      Addressed(10, 7, JStr(Blank), Absent),
      Addressed(10, 7, Absent, JStr(Question)),
      Update(Absent, Message(Chat(JInt(10)), JInt(7), JStr(Question), Absent)) }

\* a reply of two paragraphs that does not fit one message
TwoChunkReply == Join(<<Rep("a", 3000), Rep("a", 3000)>>)

\* what call_openai gives in the pipeline specification
PipelineCompletions ==
    { Raises, Null, JStr(EmptyStr), JStr(Rep("a", 5)), JStr(Hello),
      JStr(TwoChunkReply) }

\* paragraphs the chunking specification builds completion results from
ParaSet ==
    { EmptyStr, Rep(" ", 1), Rep("a", 1), <<Run("\n", 1), Run("a", 1)>>,
      Rep("a", 1998), Rep("a", 3996), Rep("a", 3999), Rep("a", 4001) }

SeqsUpTo(S, n) == UNION { [1..k -> S] : k \in 1..n }

ChunkCompletions == { JStr(Join(ps)) : ps \in SeqsUpTo(ParaSet, MaxParas) }

ChunkBodies == { Addressed(10, 7, JStr(Question), Absent) }

ConcBodies == { Addressed(c, 7, JStr(Question), Absent) : c \in ChatIds }

ConcCompletions == { Raises, JStr(Rep("a", 5)), JStr(TwoChunkReply) }

(***************************************************************************)
(* Specifications.                                                         *)
(***************************************************************************)
Init == InitWith(1..MaxDeliveries)

Next ==
    \/ \E t \in Tasks : Webhook(t, PipelineBodies)
    \/ \E t \in Tasks : Start(t)
    \/ \E t \in Tasks : AckReturn(t)
    \/ \E t \in Tasks : OpenAIReturn(t, PipelineCompletions)
    \/ \E t \in Tasks : LoopIter(t)
    \/ \E t \in Tasks : ChunkReturn(t)
    \/ \E t \in Tasks : LoopEnd(t)
    \/ \E t \in Tasks : LastReturn(t)

\* the pipeline: every shape of update, a few completion results
Spec == Init /\ [][Next]_vars

\* a step of the background task of delivery t
Progress(t) ==
    \/ Start(t)
    \/ AckReturn(t)
    \/ OpenAIReturn(t, PipelineCompletions)
    \/ LoopIter(t)
    \/ ChunkReturn(t)
    \/ LoopEnd(t)
    \/ LastReturn(t)

\* the pipeline with its scheduling: a task that was handed to the background
\* runner is run by it, and every call the task waits for comes back (the
\* POST has timeout=(5, 15), the completion call request_timeout=30), so a
\* step of the task that stays possible is taken
SpecLive == Init /\ [][Next]_vars /\ \A t \in 1..MaxDeliveries : WF_vars(Progress(t))

InitChunk == InitWith({1})

NextChunk ==
    \/ \E t \in Tasks : Webhook(t, ChunkBodies)
    \/ \E t \in Tasks : Start(t)
    \/ \E t \in Tasks : AckReturn(t)
    \/ \E t \in Tasks : OpenAIReturn(t, ChunkCompletions)
    \/ \E t \in Tasks : LoopIter(t)
    \/ \E t \in Tasks : ChunkReturn(t)
    \/ \E t \in Tasks : LoopEnd(t)
    \/ \E t \in Tasks : LastReturn(t)

\* the chunking of the reply: one task, completion results of every
\* paragraph structure
SpecChunk == InitChunk /\ [][NextChunk]_vars

InitConc == InitWith(1..MaxTasks)

NextConc ==
    \/ \E t \in Tasks : Webhook(t, ConcBodies)
    \/ \E t \in Tasks : Start(t)
    \/ \E t \in Tasks : AckReturn(t)
    \/ \E t \in Tasks : OpenAIReturn(t, ConcCompletions)
    \/ \E t \in Tasks : LoopIter(t)
    \/ \E t \in Tasks : ChunkReturn(t)
    \/ \E t \in Tasks : LoopEnd(t)
    \/ \E t \in Tasks : LastReturn(t)

\* concurrency: several tasks at once, to either chat
SpecConc == InitConc /\ [][NextConc]_vars

(***************************************************************************)
(* Vocabulary of the properties.                                           *)
(***************************************************************************)
\* a handler or task that has ended
Terminal == {"done", "bad_json", "unscheduled"}

\* the messages of task t's sends that have returned, in order
Sent(t) == [i \in 1..Len(attempts[t]) |-> attempts[t][i].msg]

\* the POSTs of task t that are not yet answered
InFlightOf(t) == { r \in inflight : r.task = t }

\* every message task t has handed to send_telegram_message so far
Handed(t) == { attempts[t][i].msg : i \in 1..Len(attempts[t]) }
                 \cup { r.msg : r \in InFlightOf(t) }

\* process_and_reply was called for t and found a message with a chat id
Addressable(t) ==
    /\ pc[t] \notin {"idle", "bad_json", "unscheduled"}
    /\ Extract(data[t]) = "proceed"

\* the text of the update's message: its text, else its caption, else ""
RawText(m) ==
    IF m.text.k = "str" /\ m.text.v # EmptyStr THEN m.text.v
    ELSE IF m.caption.k = "str" THEN m.caption.v
    ELSE EmptyStr

\* the user text task t handed to call_openai
UserContent(t) == messages[t][2].content

\* call_openai was entered by t and raised
CompletionFailed(t) ==
    /\ completions[t] > 0
    /\ pc[t] # "openai_wait"
    /\ reply[t] = Absent

(***************************************************************************)
(* C1: telegram_webhook returns exactly {"ok": true} on every path: the    *)
(* body does not parse, the body parses (whatever its shape), add_task     *)
(* raises.                                                                 *)
(***************************************************************************)
C1_WebhookAlwaysOk ==
    \A t \in Tasks :
        /\ pc[t] # "idle" => response[t] = OkTrue
        /\ pc[t] = "idle" => response[t] = NoResponse

\* a body that does not parse was answered
C1_Witness ==
    \E t \in Tasks : pc[t] = "bad_json" /\ response[t] = OkTrue

(***************************************************************************)
(* C2: when call_openai fails for an addressable update, the task hands    *)
(* exactly one failure notice to the delivery client after the             *)
(* acknowledgment and nothing else, and ends without raising.              *)
(***************************************************************************)
C2_CompletionFailureNotice ==
    \A t \in Tasks :
        CompletionFailed(t) =>
            /\ pc[t] \in {"last_wait", "done"}
            /\ fault[t] = "completion"
            /\ pc[t] = "last_wait" =>
                   /\ Sent(t) = <<AckNotice>>
                   /\ { r.msg : r \in InFlightOf(t) } = {FailureNotice}
            /\ pc[t] = "done" =>
                   /\ Sent(t) = <<AckNotice, FailureNotice>>
                   /\ InFlightOf(t) = {}

C2_Witness ==
    \E t \in Tasks :
        /\ CompletionFailed(t)
        /\ pc[t] = "done"
        /\ Sent(t) = <<AckNotice, FailureNotice>>

(***************************************************************************)
(* C3: an update whose text, trimmed and lowercased, is a welcome trigger  *)
(* word, or whose message_id is 1.                                         *)
(***************************************************************************)
LowerChar(ch) == IF ch = "H" THEN "h" ELSE ch

RECURSIVE Lower(_)
Lower(s) ==
    IF s = <<>> THEN <<>>
    ELSE Cat(Rep(LowerChar(Head(s).c), Head(s).n), Lower(Tail(s)))

Normalize(s) == Lower(Strip(s))

TriggerWords ==
    { <<Run("h", 1), Run("e", 1), Run("l", 2), Run("o", 1)>>,
      <<Run("s", 1), Run("t", 1), Run("a", 1), Run("r", 1), Run("t", 1)>> }

WelcomeText == Fixed("welcome")

IsWelcomeTrigger(t) ==
    /\ Addressable(t)
    /\ \/ Normalize(RawText(ExtractMessage(data[t]))) \in TriggerWords
       \/ ExtractMessage(data[t]).message_id = JInt(1)

EmptyInput(t) ==
    /\ Addressable(t)
    /\ Strip(RawText(ExtractMessage(data[t]))) = EmptyStr

WasSplit(t) == reply[t].k = "str" /\ StrLen(reply[t].v) > MAX_LEN

\* the paragraphs of the reply of t: its segments between "\n\n" separators
Paragraphs(t) == Split(reply[t].v)

IsText(msg) == "str" \in DOMAIN msg

\* the texts the chunking loop of t handed to the delivery client
ChunkTexts(t) == { msg.str : msg \in { h \in Handed(t) : IsText(h) } }

RECURSIVE TextsOf(_)
TextsOf(msgs) ==
    IF msgs = <<>> THEN <<>>
    ELSE IF IsText(Head(msgs)) THEN <<Head(msgs).str>> \o TextsOf(Tail(msgs))
    ELSE TextsOf(Tail(msgs))

\* the chunks of t whose send returned, in the order of the sends
ChunkSeq(t) == TextsOf(Sent(t))

\* the same, with the chunk whose send has not returned yet
PostedChunkSeq(t) ==
    ChunkSeq(t) \o
        (IF InFlightOf(t) = {} THEN <<>>
         ELSE TextsOf(<<(CHOOSE r \in InFlightOf(t) : TRUE).msg>>))

\* a paragraph sequence up to whitespace: each paragraph trimmed, and the
\* paragraphs that are only whitespace left out
RECURSIVE NormParas(_)
NormParas(ps) ==
    IF ps = <<>> THEN <<>>
    ELSE IF Strip(Head(ps)) = EmptyStr THEN NormParas(Tail(ps))
    ELSE <<Strip(Head(ps))>> \o NormParas(Tail(ps))

IsPrefix(a, b) == Len(a) <= Len(b) /\ a = SubSeq(b, 1, Len(a))

(***************************************************************************)
(* C5: when the reply is split and none of its paragraphs is longer than   *)
(* MAX_LEN, every message the chunking loop hands over has length          *)
(* <= MAX_LEN.                                                             *)
(***************************************************************************)
C5_ChunksWithinLimit ==
    \A t \in Tasks :
        ( /\ WasSplit(t)
          /\ \A i \in 1..Len(Paragraphs(t)) : StrLen(Paragraphs(t)[i]) <= MAX_LEN )
        => \A c \in ChunkTexts(t) : StrLen(c) <= MAX_LEN

\* three paragraphs of 1998 characters: two of them fill one chunk to 3998
C5_Witness ==
    \E t \in Tasks :
        /\ pc[t] = "done"
        /\ WasSplit(t)
        /\ \A i \in 1..Len(Paragraphs(t)) : StrLen(Paragraphs(t)[i]) <= MAX_LEN
        /\ Len(ChunkSeq(t)) >= 2
        /\ \E c \in ChunkTexts(t) : StrLen(c) >= MAX_LEN - 2

(***************************************************************************)
(* C6: every chunk the chunking loop hands to the delivery client is a     *)
(* non-empty string.                                                       *)
(***************************************************************************)
C6_ChunksNonEmpty ==
    \A t \in Tasks : WasSplit(t) => EmptyStr \notin ChunkTexts(t)

(***************************************************************************)
(* C7: for a reply that was split, the chunks handed over, joined in the   *)
(* order of their sends with "\n\n", have the paragraph sequence of the    *)
(* reply (same paragraphs, same order, none lost or repeated), up to the   *)
(* whitespace trimmed at the chunk boundaries.                             *)
(***************************************************************************)
C7_RejoinReproducesParagraphs ==
    \A t \in Tasks :
        (WasSplit(t) /\ pc[t] = "done") =>
            NormParas(Split(Join(ChunkSeq(t)))) = NormParas(Paragraphs(t))

\* three paragraphs in three chunks, one of them with whitespace to trim
C7_Witness ==
    \E t \in Tasks :
        /\ WasSplit(t)
        /\ pc[t] = "done"
        /\ Len(NormParas(Paragraphs(t))) >= 3
        /\ Len(ChunkSeq(t)) >= 3
        /\ NormParas(Paragraphs(t)) # Paragraphs(t)

(***************************************************************************)
(* C8: within one process_and_reply the chunks are sent one after the      *)
(* other in the order of the text: a task has at most one send in flight   *)
(* and waits for it, and what it has posted so far is a prefix of the      *)
(* reply's paragraph sequence.                                             *)
(***************************************************************************)
C8_ChunksSequentialInOrder ==
    \A t \in Tasks :
        /\ Cardinality(InFlightOf(t)) <= 1
        /\ InFlightOf(t) # {} => pc[t] \in {"ack_wait", "chunk_wait", "last_wait"}
        /\ WasSplit(t) =>
               IsPrefix(NormParas(Split(Join(PostedChunkSeq(t)))),
                        NormParas(Paragraphs(t)))

\* the first chunk's send has returned and the second chunk is in flight
C8_Witness ==
    \E t \in Tasks :
        /\ WasSplit(t)
        /\ pc[t] = "chunk_wait"
        /\ Len(ChunkSeq(t)) >= 1
        /\ ChunkSeq(t)[1] # EmptyStr
        /\ Len(PostedChunkSeq(t)) = Len(ChunkSeq(t)) + 1
        /\ PostedChunkSeq(t)[Len(PostedChunkSeq(t))] # ChunkSeq(t)[1]

(***************************************************************************)
(* C9: no fault raised at any stage of process_and_reply leaves it: a task *)
(* never crashes, an exception that reaches the outermost handler ends the *)
(* task in done, and the system only stops with every task ended.          *)
(***************************************************************************)
C9_NoFaultEscapes ==
    /\ \A t \in Tasks :
          /\ pc[t] # "crashed"
          /\ fault[t] # "escaped"
          /\ fault[t] = "outer" => pc[t] = "done"
    /\ ~(ENABLED Next) => \A t \in Tasks : pc[t] \in Terminal

\* a message that is no dict raised AttributeError and the task ended cleanly
C9_Witness ==
    \E t \in Tasks :
        /\ pc[t] = "done"
        /\ fault[t] = "outer"
        /\ Extract(data[t]) = "raise"

(***************************************************************************)
(* C10: concurrent process_and_reply invocations for different chats: a    *)
(* task that has not ended can always take its next step whatever the      *)
(* other tasks are doing, and a chat addressed by one task only holds      *)
(* exactly that task's delivered messages, in its order.                   *)
(***************************************************************************)
TaskStep(t) ==
    \/ Start(t)
    \/ AckReturn(t)
    \/ OpenAIReturn(t, ConcCompletions)
    \/ LoopIter(t)
    \/ ChunkReturn(t)
    \/ LoopEnd(t)
    \/ LastReturn(t)

\* the messages of t that Telegram accepted, in the order of its sends
RECURSIVE DeliveredOf(_)
DeliveredOf(as) ==
    IF as = <<>> THEN <<>>
    ELSE IF Head(as).ok THEN <<Head(as).msg>> \o DeliveredOf(Tail(as))
    ELSE DeliveredOf(Tail(as))

\* the tasks that address chat c
TasksOf(c) == { t \in Tasks : chat_id[t] = JInt(c) }

C10_ConcurrentTasksIsolated ==
    /\ \A t \in Tasks : pc[t] \notin Terminal \cup {"idle"} => ENABLED TaskStep(t)
    /\ \A c \in ChatIds :
          /\ TasksOf(c) = {} => transcript[c] = <<>>
          /\ \A t \in TasksOf(c) :
                TasksOf(c) = {t} => transcript[c] = DeliveredOf(attempts[t])

\* two tasks to two chats ran interleaved and each chat got its own messages
C10_Witness ==
    \E t1, t2 \in Tasks :
        /\ chat_id[t1] = JInt(10)
        /\ chat_id[t2] = JInt(20)
        /\ TasksOf(10) = {t1}
        /\ TasksOf(20) = {t2}
        /\ pc[t1] = "last_wait"
        /\ pc[t2] = "done"
        /\ Len(transcript[10]) >= 2
        /\ Len(transcript[20]) >= 3

(***************************************************************************)
(* C11: telegram_webhook makes no completion-service or chat-delivery call *)
(* and waits on none: a delivery can be answered whatever the pipelines of *)
(* the other deliveries are doing, the response is there before the        *)
(* scheduled task has started, and it stays while the task runs.           *)
(***************************************************************************)
C11_WebhookNeverWaits ==
    \A t \in Tasks :
        /\ pc[t] = "idle" => ENABLED Webhook(t, ConcBodies)
        /\ pc[t] = "queued" =>
               /\ response[t] = OkTrue
               /\ completions[t] = 0
               /\ Handed(t) = {}
        /\ pc[t] \in {"ack_wait", "openai_wait", "loop", "chunk_wait",
                      "last_wait", "done"} => response[t] = OkTrue

\* one delivery was answered while another's task waits on call_openai
C11_Witness ==
    \E t1, t2 \in Tasks :
        /\ pc[t1] = "openai_wait"
        /\ pc[t2] = "queued"
        /\ response[t2] = OkTrue

(***************************************************************************)
(* C12: an update with neither message nor edited_message, or whose        *)
(* message has no chat id, ends process_and_reply silently: no send (not   *)
(* even the acknowledgment), no completion call, no exception.             *)
(***************************************************************************)
NoMessageOrChatId(d) ==
    /\ d.k = "dict"
    /\ \/ d.message = Absent /\ d.edited_message = Absent
       \/ /\ d.message.k = "dict"
          /\ \/ d.message.chat = Absent
             \/ /\ d.message.chat.k = "dict"
                /\ d.message.chat.id \in {Absent, Null}

C12_UnaddressableIsSilent ==
    \A t \in Tasks :
        NoMessageOrChatId(data[t]) =>
            /\ pc[t] \in {"queued", "done"}
            /\ Handed(t) = {}
            /\ completions[t] = 0
            /\ fault[t] = "none"

\* a message without a chat went through process_and_reply
C12_Witness ==
    \E t \in Tasks :
        /\ NoMessageOrChatId(data[t])
        /\ data[t].message.k = "dict"
        /\ pc[t] = "done"

(***************************************************************************)
(* C13: a delivery failure on a chunk does not abort the remaining chunks: *)
(* for a reply split into n chunks a send is attempted for each of the n,  *)
(* whichever of the earlier attempts failed.                               *)
(***************************************************************************)
\* the chunks of a paragraph sequence: what lines 135-144 flush, from
\* position i on with buffer buf
RECURSIVE ChunksFrom(_, _, _)
ChunksFrom(ps, i, buf) ==
    IF i > Len(ps)
    THEN IF Flushed(buf) # EmptyStr THEN <<Flushed(buf)>> ELSE <<>>
    ELSE IF FlushNeeded(buf, ps[i])
         THEN <<Flushed(buf)>> \o ChunksFrom(ps, i + 1, AfterFlush(ps[i]))
         ELSE ChunksFrom(ps, i + 1, Accumulate(buf, ps[i]))

ReplyChunks(s) == ChunksFrom(Split(s), 1, EmptyStr)

C13_FailedChunkDoesNotAbort ==
    \A t \in Tasks :
        WasSplit(t) =>
            /\ IsPrefix(PostedChunkSeq(t), ReplyChunks(reply[t].v))
            /\ pc[t] = "done" => ChunkSeq(t) = ReplyChunks(reply[t].v)

\* the first chunk was not delivered and two more were attempted after it
C13_Witness ==
    \E t \in Tasks :
        /\ WasSplit(t)
        /\ pc[t] = "done"
        /\ Len(attempts[t]) >= 4
        /\ attempts[t][2].msg # Text(EmptyStr)
        /\ ~attempts[t][2].ok
        /\ attempts[t][4].ok

(***************************************************************************)
(* C14: a failure to deliver the acknowledgment never aborts the task: the *)
(* completion call is made once the acknowledgment's send returned, and    *)
(* two tasks with the same input and the same completion result hand over  *)
(* the same messages whether or not their acknowledgments were delivered.  *)
(***************************************************************************)
C14_AckFailureDoesNotAbort ==
    /\ \A t \in Tasks :
          Len(attempts[t]) >= 1 =>
              /\ attempts[t][1].msg = AckNotice
              /\ completions[t] = 1
    /\ \A t1, t2 \in Tasks :
          /\ pc[t1] = "done"
          /\ pc[t2] = "done"
          /\ text[t1] = text[t2]
          /\ reply[t1] = reply[t2]
          => /\ Sent(t1) = Sent(t2)
             /\ messages[t1] = messages[t2]
             /\ fault[t1] = fault[t2]

\* one acknowledgment was delivered, the other was not, and both tasks went
\* on to send the same two-chunk reply
C14_Witness ==
    \E t1, t2 \in Tasks :
        /\ pc[t1] = "done"
        /\ pc[t2] = "done"
        /\ attempts[t1][1].ok
        /\ ~attempts[t2][1].ok
        /\ reply[t1] = JStr(TwoChunkReply)
        /\ reply[t2] = JStr(TwoChunkReply)
        /\ Len(attempts[t2]) = 3

(***************************************************************************)
(* C15: when the delivery of the reply fails (the single message or a      *)
(* chunk is rejected, or its send errors), the task hands the fallback     *)
(* notice to the delivery client, and it does not crash.                   *)
(***************************************************************************)
\* a send of reply content by t came back without a delivery
ReplyDeliveryFailed(t) ==
    \E i \in 1..Len(attempts[t]) : IsText(attempts[t][i].msg) /\ ~attempts[t][i].ok

C15_FallbackAfterFailedReply ==
    \A t \in Tasks :
        (pc[t] = "done" /\ ReplyDeliveryFailed(t)) =>
            /\ FallbackNotice \in Handed(t)
            /\ fault[t] = "none"

(***************************************************************************)
(* C16: a task makes at most one completion call: a failed call is not     *)
(* made again (the task goes on to the failure notice and ends), and no    *)
(* later step of the task enters call_openai.                              *)
(***************************************************************************)
C16_AtMostOneCompletionCall ==
    \A t \in Tasks :
        /\ completions[t] <= 1
        /\ completions[t] = 1 <=> pc[t] \in {"openai_wait", "loop", "chunk_wait", "last_wait"}
                                  \/ (pc[t] = "done" /\ Len(attempts[t]) >= 1)
        /\ CompletionFailed(t) => pc[t] \in {"last_wait", "done"}

\* the one call failed and the task ended without another
C16_Witness ==
    \E t \in Tasks :
        /\ CompletionFailed(t)
        /\ pc[t] = "done"
        /\ completions[t] = 1
        /\ Sent(t) = <<AckNotice, FailureNotice>>

(***************************************************************************)
(* C17: an empty completion result (None or "") gives exactly one          *)
(* no-answer notice and nothing else after the acknowledgment; a non-empty *)
(* result of at most MAX_LEN characters gives exactly one message, whose   *)
(* text is the result unchanged.                                           *)
(***************************************************************************)
\* the messages t handed over after the acknowledgment, in order, the
\* unanswered POST (at most one) last
AfterAck(t) ==
    LET answered == Tail(Sent(t))
    IN  IF InFlightOf(t) = {} THEN answered
        ELSE Append(answered, (CHOOSE r \in InFlightOf(t) : TRUE).msg)

C17_EmptyAndShortResults ==
    \A t \in Tasks :
        pc[t] \in {"last_wait", "done"} =>
            /\ reply[t] \in {Null, JStr(EmptyStr)} => AfterAck(t) = <<NoAnswerNotice>>
            /\ (reply[t].k = "str" /\ reply[t].v # EmptyStr /\ StrLen(reply[t].v) <= MAX_LEN)
                   => AfterAck(t) = <<Text(reply[t].v)>>

\* a None result ended with the notice
C17_Witness ==
    \E t \in Tasks :
        /\ pc[t] = "done"
        /\ reply[t] = Null
        /\ Sent(t) = <<AckNotice, NoAnswerNotice>>

(***************************************************************************)
(* C18: a paragraph longer than MAX_LEN is one chunk on its own (the whole *)
(* paragraph, trimmed, and nothing else), and the chunks before and after  *)
(* it carry the paragraphs before and after it, in order.                  *)
(***************************************************************************)
\* the paragraphs carried by a chunk sequence, up to whitespace
ParasOfChunks(cs) == NormParas(Split(Join(cs)))

C18_OversizedParagraphAlone ==
    \A t \in Tasks :
        (WasSplit(t) /\ pc[t] = "done") =>
            LET ps == Paragraphs(t)
                cs == ChunkSeq(t)
            IN  \A i \in 1..Len(ps) :
                    StrLen(ps[i]) > MAX_LEN =>
                        \E j \in 1..Len(cs) :
                            /\ cs[j] = Strip(ps[i])
                            /\ ParasOfChunks(SubSeq(cs, 1, j - 1))
                                   = NormParas(SubSeq(ps, 1, i - 1))
                            /\ ParasOfChunks(SubSeq(cs, j + 1, Len(cs)))
                                   = NormParas(SubSeq(ps, i + 1, Len(ps)))

\* an oversized paragraph between two others went out as the second of
\* three chunks
C18_Witness ==
    \E t \in Tasks :
        /\ WasSplit(t)
        /\ pc[t] = "done"
        /\ Len(Paragraphs(t)) = 3
        /\ StrLen(Paragraphs(t)[2]) > MAX_LEN
        /\ Len(ChunkSeq(t)) = 3
        /\ ChunkSeq(t)[1] # EmptyStr
        /\ ChunkSeq(t)[2] = Paragraphs(t)[2]
        /\ ChunkSeq(t)[3] # EmptyStr

(***************************************************************************)
(* C19: every task handed to the background runner eventually reaches      *)
(* done, given that its outbound calls return and it is scheduled fairly.  *)
(***************************************************************************)
C19_ScheduledTaskTerminates ==
    \A t \in 1..MaxDeliveries : (pc[t] = "queued") ~> (pc[t] = "done")

\* a task went through the acknowledgment, the completion call and the
\* paragraph loop, had a send fail, and is done
C19_Witness ==
    \E t \in Tasks :
        /\ pc[t] = "done"
        /\ WasSplit(t)
        /\ Len(attempts[t]) = 3
        /\ ~attempts[t][3].ok
        /\ inflight = {}

(***************************************************************************)
(* C20: within one task at most one of the three outcomes is ever sent     *)
(* after the acknowledgment (completion-failure notice, no-answer notice,  *)
(* reply content), the acknowledgment is the first message the task hands  *)
(* over, and reply content is handed over only after the completion call   *)
(* returned a result.                                                      *)
(***************************************************************************)
\* the outcomes among the messages t handed to the delivery client
Outcomes(t) ==
    (IF FailureNotice \in Handed(t) THEN {"failure"} ELSE {})
    \cup (IF NoAnswerNotice \in Handed(t) THEN {"no_answer"} ELSE {})
    \cup (IF \E h \in Handed(t) : IsText(h) THEN {"content"} ELSE {})

\* the first message t handed over, given that there is one
FirstHanded(t) ==
    IF attempts[t] # <<>> THEN attempts[t][1].msg
    ELSE (CHOOSE r \in InFlightOf(t) : TRUE).msg

C20_OutcomesExclusive ==
    \A t \in Tasks :
        /\ Cardinality(Outcomes(t)) <= 1
        /\ Handed(t) # {} => FirstHanded(t) = AckNotice
        /\ Handed(t) \ {AckNotice} # {} => Len(attempts[t]) >= 1
        /\ "content" \in Outcomes(t) =>
               /\ completions[t] = 1
               /\ reply[t].k = "str"
               /\ ~CompletionFailed(t)

\* each of the three outcomes is reachable: here the reply content, in two
\* chunks, after a delivered acknowledgment
C20_Witness ==
    \E t \in Tasks :
        /\ pc[t] = "done"
        /\ Outcomes(t) = {"content"}
        /\ Len(attempts[t]) = 3
        /\ attempts[t][1] = [msg |-> AckNotice, ok |-> TRUE]
        /\ attempts[t][3].ok

=============================================================================
